---- MODULE Spec2Model ----
(***************************************************************************)
(* The native time bridge of src/main/cpp/win/jsr-310.cpp: JNI_OnLoad,     *)
(* WindowsSystemTime.get and WindowsSystemTime.getAdjustment.               *)
(*                                                                         *)
(* A machine integer is a record [w |-> width, bits |-> set of the bit     *)
(* positions that are 1], so that 32- and 64-bit values keep their width   *)
(* and every conversion, shift and OR is computed bit by bit.              *)
(***************************************************************************)
EXTENDS Integers, FiniteSets, Sequences, TLC

\* ---------------------------------------------------------------- bounds
\* Sample words are built from the small numbers 0..MaxSmall.
MaxSmall == 1
\* Threads of the managed runtime that call into the library concurrently.
NumThreads == 2
\* How many times the runtime loads the library in one behaviour.
MaxLoads == 1

\* ------------------------------------------------------- machine integers
Word(w, S) == [w |-> w, bits |-> S]

\* DWORD: unsigned 32-bit.  BOOL and int: signed 32-bit.  jlong: signed 64-bit.
DWORD(S) == Word(32, S)
INT(S) == Word(32, S)
QWORD(S) == Word(64, S)

\* A conversion from an unsigned type to a wider type pads with zero bits.
ZeroExtend(v, w) == Word(w, v.bits)

\* A conversion from a signed type to a wider type copies the sign bit.
SignExtend(v, w) ==
    Word(w, v.bits \cup (IF (v.w - 1) \in v.bits THEN v.w .. (w - 1) ELSE {}))

\* v << n in v's own width: bits shifted past the top are lost.
Shl(v, n) == Word(v.w, {b + n : b \in v.bits} \cap (0 .. (v.w - 1)))

\* a | b
Or(a, b) == Word(a.w, a.bits \cup b.bits)

\* C's test of an integer as a condition: nonzero is true.
Truthy(v) == v.bits # {}

\* (jlong)x for x a DWORD: the source type is unsigned (a sign-extending
\* variant, as for a signed 32-bit source, is the mutant).
jlongFromLONG(v) == SignExtend(v, 64)
jlongFromDWORD(v) == ZeroExtend(v, 64)

\* (jlong)x for x an int literal (-1, 1): the source type is signed.
jlongFromInt(v) == SignExtend(v, 64)

\* The int literals of the source.
IntMinusOne == INT(0 .. 31)
IntOne == INT({0})

\* ------------------------------------------------------------ sample words
\* The bits of a small number n < 2^16.
Low(n) == {b \in 0 .. 15 : (n \div (2 ^ b)) % 2 = 1}

\* 32-bit words around 0, 2^31 - 1, 2^31 and 2^32 - 1: k, 2^32-1-k, 2^31+k and
\* 2^31-1-k for k in 0..MaxSmall.
DwordSamples ==
    UNION {{DWORD(Low(k)), DWORD((0 .. 31) \ Low(k)),
            DWORD(Low(k) \cup {31}), DWORD((0 .. 30) \ Low(k))} : k \in 0 .. MaxSmall}

\* The two words that differ in every bit.
EdgeWords == {DWORD({}), DWORD(0 .. 31)}

\* BOOL is an int: FALSE is 0, TRUE is 1, and any other nonzero value is true too.
BoolSamples == {INT({}), INT({0}), INT(0 .. 31)}
EdgeBools == {INT({}), INT({0})}

\* --------------------------------------------------------------- the OS
\* What one call of GetSystemTimeAdjustment can hand back: its BOOL result and
\* the three output variables.  On failure the output variables hold whatever
\* they held before (indeterminate: the locals are uninitialized), so every
\* combination is an outcome there too.
AdjustmentOutcomes(W, B) ==
    [result : B, timeAdjustment : W, timeIncrement : W, disabled : B]

\* The OS file-time counter, unsigned 64-bit, from its two words.
Counter(hi, lo) == QWORD(lo.bits \cup {b + 32 : b \in hi.bits})

\* The FILETIME the OS writes for a counter value.
FileTimeOf(c) ==
    [dwLowDateTime |-> DWORD(c.bits \cap (0 .. 31)),
     dwHighDateTime |-> DWORD({b - 32 : b \in c.bits \ (0 .. 31)})]

\* ------------------------------------------------ the union of get()
\* union { FILETIME fileTime; LARGE_INTEGER time; jlong time64; } t: eight bytes
\* of storage, byte k holding a set of bit positions 0..7.
ByteOf(v, k) == {b - 8 * k : b \in v.bits \cap ((8 * k) .. (8 * k + 7))}

\* Storing a FILETIME: dwLowDateTime at offset 0, dwHighDateTime at offset 4,
\* each little-endian (the two fields in the other order is the mutant).
StoreFileTimeHighFirst(ft) ==
    [k \in 0 .. 7 |-> IF k < 4 THEN ByteOf(ft.dwHighDateTime, k)
                              ELSE ByteOf(ft.dwLowDateTime, k - 4)]
StoreFileTime(ft) ==
    [k \in 0 .. 7 |-> IF k < 4 THEN ByteOf(ft.dwLowDateTime, k)
                              ELSE ByteOf(ft.dwHighDateTime, k - 4)]

\* Reading the same eight bytes as the jlong member (the most significant byte
\* first is the mutant).
LoadTime64BigEndian(mem) == QWORD(UNION {{b + 8 * (7 - k) : b \in mem[k]} : k \in 0 .. 7})
LoadTime64(mem) == QWORD(UNION {{b + 8 * k : b \in mem[k]} : k \in 0 .. 7})

ZeroBytes == [k \in 0 .. 7 |-> {}]

\* ------------------------------------------------ the two entry points
\* jlong t = (((jlong)timeAdjustment) << 32) | ((jlong)timeIncrement);
\* (shifting by 31 is the mutant).
PackAdjustmentShift31(a, i) == Or(Shl(jlongFromDWORD(a), 31), jlongFromDWORD(i))
PackAdjustment(a, i) == Or(Shl(jlongFromDWORD(a), 32), jlongFromDWORD(i))

\* t |= (((jlong)1) << 63);  (shifting the int 1 before widening it, which
\* loses the bit, is the mutant).
SetDisabledNarrow(t) == Or(t, jlongFromInt(Shl(IntOne, 63)))
SetDisabled(t) == Or(t, Shl(jlongFromInt(IntOne), 63))

\* if (!result): the call failed (testing the sign of the BOOL instead is the
\* mutant).
FailedIfNegative(result) == 31 \in result.bits
Failed(result) == ~Truthy(result)

\* if (disabled)
IsDisabled(disabled) == Truthy(disabled)

\* getAdjustment() run on its own against one outcome o of the OS call.
getAdjustment(o) ==
    IF Failed(o.result)
    THEN jlongFromInt(IntMinusOne)
    ELSE LET t == PackAdjustment(o.timeAdjustment, o.timeIncrement)
         IN  IF IsDisabled(o.disabled) THEN SetDisabled(t) ELSE t

\* get() run on its own against the FILETIME ft the OS wrote.
get(ft) == LoadTime64(StoreFileTime(ft))

\* return JNI_VERSION_1_2;  (jni.h: 0x00010002)
JNI_VERSION_1_2 == 65538
NullPtr == "NULL"
Pointers == {NullPtr, "ptr"}

\* JNI_OnLoad(vm, reserved): both arguments are ignored (refusing a null vm is
\* the mutant).
JNI_OnLoadChecked(vm, reserved) == IF vm = NullPtr THEN -1 ELSE JNI_VERSION_1_2
JNI_OnLoad(vm, reserved) == JNI_VERSION_1_2

\* ------------------------------------------------------------------ state
VARIABLES
    clock,      \* the OS file-time counter (OS state, read by get)
    pc,         \* pc[t]: where thread t is inside the library
    frame,      \* frame[s]: the locals of the call whose storage is s
    ret,        \* ret[t]: the jlong the last call of thread t returned
    osOut,      \* osOut[t]: what the OS handed to the current call of thread t
    onLoadRet,  \* the tokens JNI_OnLoad returned, one per load
    prevGet,    \* the value the preceding get() returned
    dec,        \* the OS counter decreased since the last read by get()
    stable,     \* the OS counter did not decrease between the last two reads
    prevAdj     \* the preceding getAdjustment() call: its outcome and result

progVars == <<clock, pc, frame, ret, osOut, onLoadRet>>
obsVars == <<prevGet, dec, stable, prevAdj>>
vars == <<clock, pc, frame, ret, osOut, onLoadRet, prevGet, dec, stable, prevAdj>>

\* The storage of thread t's locals: automatic variables live in the calling
\* thread's own stack frame (one static buffer for all threads is the mutant).
FrameOfStatic(t) == 1
FrameOf(t) == t

None == QWORD({-1})
NoOut == [kind |-> "none"]
NoCall == [out |-> NoOut, ret |-> None]

\* The locals of both functions.  Their contents before the OS call writes
\* them are indeterminate and are never read; the frame is shown zeroed.
DeadFrame ==
    [time64 |-> ZeroBytes,
     timeAdjustment |-> DWORD({}), timeIncrement |-> DWORD({}),
     disabled |-> INT({}), result |-> INT({}), t |-> QWORD({})]

InitOn(T, c) ==
    /\ clock = c
    /\ pc = [t \in T |-> "idle"]
    /\ frame = [t \in T |-> DeadFrame]
    /\ ret = [t \in T |-> None]
    /\ osOut = [t \in T |-> NoOut]
    /\ onLoadRet = <<>>
    /\ prevGet = None
    /\ dec = FALSE
    /\ stable = TRUE
    /\ prevAdj = NoCall

\* ---------------------------------------------------------------- actions
\* The runtime loads the library.
OnLoad ==
    /\ Len(onLoadRet) < MaxLoads
    /\ \E vm \in Pointers, reserved \in Pointers :
          onLoadRet' = Append(onLoadRet, JNI_OnLoad(vm, reserved))
    /\ UNCHANGED <<clock, pc, frame, ret, osOut>>

\* The OS clock moves to c (forwards, or backwards when it is set).
ClockChange(c) ==
    /\ c # clock
    /\ clock' = c
    /\ UNCHANGED <<pc, frame, ret, osOut, onLoadRet>>

\* get(): GetSystemTimeAsFileTime(&t.fileTime);
GetRead(t) ==
    /\ pc[t] = "idle"
    /\ LET ft == FileTimeOf(clock)
       IN  /\ frame' = [frame EXCEPT ![FrameOf(t)].time64 = StoreFileTime(ft)]
           /\ osOut' = [osOut EXCEPT ![t] = [kind |-> "get", fileTime |-> ft]]
    /\ pc' = [pc EXCEPT ![t] = "get_return"]
    /\ UNCHANGED <<clock, ret, onLoadRet>>

\* get(): return t.time64;
GetReturn(t) ==
    /\ pc[t] = "get_return"
    /\ ret' = [ret EXCEPT ![t] = LoadTime64(frame[FrameOf(t)].time64)]
    /\ pc' = [pc EXCEPT ![t] = "get_done"]
    /\ UNCHANGED <<clock, frame, osOut, onLoadRet>>

\* getAdjustment(): BOOL result = GetSystemTimeAdjustment(&timeAdjustment,
\* &timeIncrement, &disabled);
AdjQuery(t, outcomes) ==
    /\ pc[t] = "idle"
    /\ \E o \in outcomes :
          /\ frame' = [frame EXCEPT ![FrameOf(t)].timeAdjustment = o.timeAdjustment,
                                    ![FrameOf(t)].timeIncrement = o.timeIncrement,
                                    ![FrameOf(t)].disabled = o.disabled,
                                    ![FrameOf(t)].result = o.result]
          /\ osOut' = [osOut EXCEPT ![t] =
                          [kind |-> "adj", result |-> o.result,
                           timeAdjustment |-> o.timeAdjustment,
                           timeIncrement |-> o.timeIncrement,
                           disabled |-> o.disabled]]
    /\ pc' = [pc EXCEPT ![t] = "adj_check"]
    /\ UNCHANGED <<clock, ret, onLoadRet>>

\* getAdjustment(): if (!result) return -1;
AdjCheck(t) ==
    /\ pc[t] = "adj_check"
    /\ IF Failed(frame[FrameOf(t)].result)
       THEN /\ ret' = [ret EXCEPT ![t] = jlongFromInt(IntMinusOne)]
            /\ pc' = [pc EXCEPT ![t] = "adj_done"]
       ELSE /\ pc' = [pc EXCEPT ![t] = "adj_pack"]
            /\ ret' = ret
    /\ UNCHANGED <<clock, frame, osOut, onLoadRet>>

\* getAdjustment(): jlong t = (((jlong)timeAdjustment) << 32) | ((jlong)timeIncrement);
AdjPack(t) ==
    /\ pc[t] = "adj_pack"
    /\ LET f == frame[FrameOf(t)]
       IN  frame' = [frame EXCEPT ![FrameOf(t)].t =
                        PackAdjustment(f.timeAdjustment, f.timeIncrement)]
    /\ pc' = [pc EXCEPT ![t] = "adj_flag"]
    /\ UNCHANGED <<clock, ret, osOut, onLoadRet>>

\* getAdjustment(): if (disabled) t |= (((jlong)1) << 63);
AdjFlag(t) ==
    /\ pc[t] = "adj_flag"
    /\ LET f == frame[FrameOf(t)]
       IN  frame' = [frame EXCEPT ![FrameOf(t)].t =
                        IF IsDisabled(f.disabled) THEN SetDisabled(f.t) ELSE f.t]
    /\ pc' = [pc EXCEPT ![t] = "adj_return"]
    /\ UNCHANGED <<clock, ret, osOut, onLoadRet>>

\* getAdjustment(): return t;
AdjReturn(t) ==
    /\ pc[t] = "adj_return"
    /\ ret' = [ret EXCEPT ![t] = frame[FrameOf(t)].t]
    /\ pc' = [pc EXCEPT ![t] = "adj_done"]
    /\ UNCHANGED <<clock, frame, osOut, onLoadRet>>

\* The caller takes the returned value; the call's frame is gone.
Resume(t) ==
    /\ pc[t] \in {"get_done", "adj_done"}
    /\ pc' = [pc EXCEPT ![t] = "idle"]
    /\ frame' = [frame EXCEPT ![FrameOf(t)] = DeadFrame]
    /\ ret' = [ret EXCEPT ![t] = None]
    /\ osOut' = [osOut EXCEPT ![t] = NoOut]
    /\ UNCHANGED <<clock, onLoadRet>>

\* ------------------------------------------------- comparing 64-bit values
Max(S) == CHOOSE x \in S : \A y \in S : y <= x

\* a <= b as unsigned numbers: the highest bit in which they differ is b's.
ULeq(a, b) ==
    \/ a.bits = b.bits
    \/ Max((a.bits \ b.bits) \cup (b.bits \ a.bits)) \in b.bits

\* a <= b as signed (two's complement) numbers of the same width.
IsNegative(a) == (a.w - 1) \in a.bits
SLeq(a, b) ==
    IF IsNegative(a) # IsNegative(b) THEN IsNegative(a) ELSE ULeq(a, b)

\* --------------------------------------------------------- specifications
\* One caller, getAdjustment() only, every sample outcome of the OS call.
AdjOutcomes == AdjustmentOutcomes(DwordSamples, BoolSamples)

InitAdjustment == InitOn({1}, Counter(DWORD({}), DWORD({})))

NextAdjustment ==
    \/ AdjQuery(1, AdjOutcomes) /\ UNCHANGED obsVars
    \/ AdjCheck(1) /\ UNCHANGED obsVars
    \/ AdjPack(1) /\ UNCHANGED obsVars
    \/ AdjFlag(1) /\ UNCHANGED obsVars
    \/ AdjReturn(1) /\ UNCHANGED obsVars
    \/ Resume(1) /\ UNCHANGED obsVars

SpecAdjustment == InitAdjustment /\ [][NextAdjustment]_vars

\* One caller, get() only, against an OS clock that moves both ways.
FileTimeSamples == {Counter(hi, lo) : hi \in DwordSamples, lo \in EdgeWords}

InitGet == \E c \in FileTimeSamples : InitOn({1}, c)

NextGet ==
    \/ \E c \in FileTimeSamples :
          /\ ClockChange(c)
          /\ dec' = (dec \/ ~ULeq(clock, c))
          /\ UNCHANGED <<prevGet, stable, prevAdj>>
    \/ GetRead(1) /\ stable' = ~dec /\ dec' = FALSE /\ UNCHANGED <<prevGet, prevAdj>>
    \/ GetReturn(1) /\ UNCHANGED obsVars
    \/ Resume(1) /\ prevGet' = ret[1] /\ UNCHANGED <<dec, stable, prevAdj>>

SpecGet == InitGet /\ [][NextGet]_vars

\* One caller, successful getAdjustment() calls, each remembered for the next.
SuccessOutcomes == {o \in AdjOutcomes : ~Failed(o.result)}

NextAdjustmentPair ==
    \/ AdjQuery(1, SuccessOutcomes) /\ UNCHANGED obsVars
    \/ AdjCheck(1) /\ UNCHANGED obsVars
    \/ AdjPack(1) /\ UNCHANGED obsVars
    \/ AdjFlag(1) /\ UNCHANGED obsVars
    \/ AdjReturn(1) /\ UNCHANGED obsVars
    \/ /\ Resume(1)
       /\ prevAdj' = [out |-> osOut[1], ret |-> ret[1]]
       /\ UNCHANGED <<prevGet, dec, stable>>

SpecAdjustmentPair == InitAdjustment /\ [][NextAdjustmentPair]_vars

\* One caller using both entry points, the OS clock moving and the runtime
\* loading the library at any moment, also in the middle of a call.
NextLoad ==
    \/ OnLoad /\ UNCHANGED obsVars
    \/ \E c \in FileTimeSamples : ClockChange(c) /\ UNCHANGED obsVars
    \/ GetRead(1) /\ UNCHANGED obsVars
    \/ GetReturn(1) /\ UNCHANGED obsVars
    \/ AdjQuery(1, AdjOutcomes) /\ UNCHANGED obsVars
    \/ AdjCheck(1) /\ UNCHANGED obsVars
    \/ AdjPack(1) /\ UNCHANGED obsVars
    \/ AdjFlag(1) /\ UNCHANGED obsVars
    \/ AdjReturn(1) /\ UNCHANGED obsVars
    \/ Resume(1) /\ UNCHANGED obsVars

SpecLoad == InitAdjustment /\ [][NextLoad]_vars

\* Several threads calling both entry points at once, the OS clock moving.
Threads == 1 .. NumThreads
EdgeCounters == {Counter(hi, lo) : hi \in EdgeWords, lo \in EdgeWords}
EdgeOutcomes == AdjustmentOutcomes(EdgeWords, EdgeBools)

InitConcurrent == InitOn(Threads, Counter(DWORD({}), DWORD({})))

NextConcurrent ==
    \/ \E c \in EdgeCounters : ClockChange(c) /\ UNCHANGED obsVars
    \/ \E t \in Threads : GetRead(t) /\ UNCHANGED obsVars
    \/ \E t \in Threads : GetReturn(t) /\ UNCHANGED obsVars
    \/ \E t \in Threads : AdjQuery(t, EdgeOutcomes) /\ UNCHANGED obsVars
    \/ \E t \in Threads : AdjCheck(t) /\ UNCHANGED obsVars
    \/ \E t \in Threads : AdjPack(t) /\ UNCHANGED obsVars
    \/ \E t \in Threads : AdjFlag(t) /\ UNCHANGED obsVars
    \/ \E t \in Threads : AdjReturn(t) /\ UNCHANGED obsVars
    \/ \E t \in Threads : Resume(t) /\ UNCHANGED obsVars

SpecConcurrent == InitConcurrent /\ [][NextConcurrent]_vars

\* ------------------------------------------------------------- properties
\* The 64-bit value whose upper word is hi and whose lower word is lo:
\* (hi << 32) | lo as a number modulo 2^64.
Joined(hi, lo) == QWORD(lo.bits \cup {b + 32 : b \in hi.bits})
AllOnes64 == QWORD(0 .. 63)
TopBitSet(v) == 31 \in v.bits

\* Thread t has just returned from getAdjustment() / from a getAdjustment()
\* whose OS call reported success.
AdjDone(t) == pc[t] = "adj_done"
AdjSucceeded(t) == AdjDone(t) /\ osOut[t].result.bits # {}
GetDone(t) == pc[t] = "get_done"

\* C1: when the OS call succeeds with disabled = FALSE, getAdjustment() returns
\* (A << 32) | I and bit 63 of the result is clear, for every A and I.
C1_EnabledLayout ==
    \A t \in DOMAIN pc :
        (AdjSucceeded(t) /\ osOut[t].disabled.bits = {}) =>
            /\ ret[t] = Joined(osOut[t].timeAdjustment, osOut[t].timeIncrement)
            /\ 63 \notin ret[t].bits

\* C2: when the OS call reports failure, getAdjustment() returns -1 (all 64
\* bits set) whatever the three output variables hold.
C2_FailureSentinel ==
    \A t \in DOMAIN pc :
        (AdjDone(t) /\ osOut[t].result.bits = {}) => ret[t] = AllOnes64

C2_Witness ==
    /\ AdjDone(1)
    /\ osOut[1].result.bits = {}
    /\ osOut[1].timeAdjustment.bits = {0}
    /\ osOut[1].timeIncrement.bits = {}
    /\ osOut[1].disabled.bits = {}

\* C3: when the OS call succeeds with disabled true, bit 63 of the result is
\* set whatever the top bit of A, and the result is (A << 32) | I with bit 63
\* forced to 1.
C3_DisabledLayout ==
    \A t \in DOMAIN pc :
        (AdjSucceeded(t) /\ osOut[t].disabled.bits # {}) =>
            /\ 63 \in ret[t].bits
            /\ ret[t].w = 64
            /\ ret[t].bits =
                   Joined(osOut[t].timeAdjustment, osOut[t].timeIncrement).bits \cup {63}

C3_Witness ==
    /\ AdjSucceeded(1)
    /\ osOut[1].disabled.bits # {}
    /\ ~TopBitSet(osOut[1].timeAdjustment)
    /\ osOut[1].timeAdjustment.bits # {}
    /\ 63 \in ret[1].bits

\* C4: get() returns the 64-bit value bit-identical to the FILETIME the OS
\* wrote: (dwHighDateTime << 32) | dwLowDateTime, no bit altered.
C4_GetBitIdentical ==
    \A t \in DOMAIN pc :
        GetDone(t) =>
            ret[t] = Joined(osOut[t].fileTime.dwHighDateTime,
                            osOut[t].fileTime.dwLowDateTime)

C4_Witness ==
    /\ GetDone(1)
    /\ osOut[1].fileTime.dwHighDateTime.bits = (1 .. 30)
    /\ TopBitSet(osOut[1].fileTime.dwLowDateTime)
    /\ ~(63 \in ret[1].bits)

\* Two consecutive get() calls have returned and the OS counter did not
\* decrease between their reads.
StablePair == GetDone(1) /\ prevGet # None /\ stable

\* C5 as stated: under a clock that never decreases each returned value is, as
\* a signed 64-bit number, >= the value the preceding get() returned.
C5_SignedMonotone == StablePair => SLeq(prevGet, ret[1])

\* C5 amended: under a clock that never decreases each returned value is >=
\* the preceding one as an unsigned 64-bit number; as a signed number it is
\* smaller only when the preceding value is non-negative and this one negative
\* (the counter passed 2^63 between the two calls).
C5_UnsignedMonotone ==
    StablePair =>
        /\ ULeq(prevGet, ret[1])
        /\ SLeq(prevGet, ret[1]) \/ (~IsNegative(prevGet) /\ IsNegative(ret[1]))

C5_Witness ==
    /\ StablePair
    /\ prevGet # ret[1]
    /\ ~IsNegative(prevGet)
    /\ IsNegative(ret[1])

\* C6 as stated: a successful call returns -1 if and only if A = 0xFFFFFFFF
\* and I = 0xFFFFFFFF.
C6_SentinelOnePair ==
    \A t \in DOMAIN pc :
        AdjSucceeded(t) =>
            ((ret[t] = AllOnes64) <=>
                (/\ osOut[t].timeAdjustment.bits = (0 .. 31)
                 /\ osOut[t].timeIncrement.bits = (0 .. 31)))

\* C6 amended: a successful call returns -1 if and only if I = 0xFFFFFFFF and
\* either A = 0xFFFFFFFF, or A = 0x7FFFFFFF with disabled true.
C6_SentinelPairs ==
    \A t \in DOMAIN pc :
        AdjSucceeded(t) =>
            ((ret[t] = AllOnes64) <=>
                (/\ osOut[t].timeIncrement.bits = (0 .. 31)
                 /\ \/ osOut[t].timeAdjustment.bits = (0 .. 31)
                    \/ /\ osOut[t].timeAdjustment.bits = (0 .. 30)
                       /\ osOut[t].disabled.bits # {}))

C6_Witness ==
    /\ AdjSucceeded(1)
    /\ osOut[1].timeAdjustment.bits = (0 .. 30)
    /\ osOut[1].timeIncrement.bits = (0 .. 31)
    /\ osOut[1].disabled.bits # {}
    /\ ret[1] = AllOnes64

\* Thread t's call has returned the value the same call returns when it runs
\* alone against the OS outputs it read.
ReturnsAsAlone(t) ==
    /\ AdjDone(t) => ret[t] = getAdjustment(osOut[t])
    /\ GetDone(t) => ret[t] = get(osOut[t].fileTime)

\* A step taken by thread t inside the library leaves the OS clock and every
\* other thread's position, locals, OS outputs and returned value as they were.
StepsOnlyOwnState ==
    \A t \in DOMAIN pc :
        pc'[t] # pc[t] =>
            /\ clock' = clock
            /\ \A u \in DOMAIN pc \ {t} :
                  /\ pc'[u] = pc[u]
                  /\ ret'[u] = ret[u]
                  /\ osOut'[u] = osOut[u]
                  /\ frame'[FrameOf(u)] = frame[FrameOf(u)]

\* C7: under any interleaving of calls by several threads each call returns
\* what it would return running alone against the OS outputs it read, and no
\* call changes state that another call reads.
C7_CallsIndependent ==
    /\ [](\A t \in DOMAIN pc : ReturnsAsAlone(t))
    /\ [][StepsOnlyOwnState]_vars

\* Two threads were inside getAdjustment() at once with different OS outputs;
\* the first has returned while the second is still about to pack.
C7_Witness ==
    /\ AdjSucceeded(1)
    /\ pc[2] = "adj_pack"
    /\ osOut[1].timeAdjustment # osOut[2].timeAdjustment
    /\ osOut[1].timeIncrement # osOut[2].timeIncrement
    /\ osOut[1].disabled # osOut[2].disabled
    /\ ret[1] # getAdjustment(osOut[2])

\* C8: JNI_OnLoad returns JNI_VERSION_1_2 on every load whatever its
\* arguments, and changes nothing that get() or getAdjustment() read or write.
C8_OnLoadFixedAndInert ==
    [][onLoadRet' # onLoadRet =>
          /\ onLoadRet' = Append(onLoadRet, JNI_VERSION_1_2)
          /\ UNCHANGED <<clock, pc, frame, ret, osOut>>]_vars

\* The library has been loaded and a getAdjustment() call has returned the
\* value it returns without any load.
C8_Witness ==
    /\ Len(onLoadRet) > 0
    /\ AdjSucceeded(1)
    /\ osOut[1].disabled.bits # {}
    /\ ReturnsAsAlone(1)

\* The three fields read back from a result r: I = r mod 2^32, A = bits 32-62,
\* disabled = bit 63.
DecodedIncrement(r) == r.bits \cap (0 .. 31)
DecodedAdjustment(r) == {b - 32 : b \in r.bits \cap (32 .. 62)}
DecodedDisabled(r) == 63 \in r.bits

\* Bit 63 of the result stands for "disabled or the top bit of A".
Flagged(o) == o.disabled.bits # {} \/ TopBitSet(o.timeAdjustment)

\* C9: for A < 2^31 the triple (A, I, disabled) is recoverable from the
\* result; and two successful calls whose I and low 31 bits of A agree, each
\* with disabled true or the top bit of A set, return the same value.
C9_LossAtBit63 ==
    AdjSucceeded(1) =>
        LET o == osOut[1]
            r == ret[1]
        IN  /\ ~TopBitSet(o.timeAdjustment) =>
                  /\ DecodedIncrement(r) = o.timeIncrement.bits
                  /\ DecodedAdjustment(r) = o.timeAdjustment.bits
                  /\ DecodedDisabled(r) = (o.disabled.bits # {})
            /\ (/\ prevAdj # NoCall
                /\ prevAdj.out.timeIncrement = o.timeIncrement
                /\ prevAdj.out.timeAdjustment.bits \ {31} = o.timeAdjustment.bits \ {31}
                /\ Flagged(prevAdj.out)
                /\ Flagged(o)) => prevAdj.ret = r

\* (A, I, disabled = true) with A < 2^31 was followed by
\* (A + 2^31, I, disabled = false), and both returned the same value.
C9_Witness ==
    /\ AdjSucceeded(1)
    /\ prevAdj # NoCall
    /\ ~TopBitSet(prevAdj.out.timeAdjustment)
    /\ prevAdj.out.disabled.bits # {}
    /\ osOut[1].disabled.bits = {}
    /\ osOut[1].timeAdjustment.bits = prevAdj.out.timeAdjustment.bits \cup {31}
    /\ osOut[1].timeIncrement = prevAdj.out.timeIncrement
    /\ prevAdj.ret = ret[1]

\* C10: the increment is zero-extended: the low 32 bits of a successful result
\* are I, bits 32-62 are the low 31 bits of A, and the result is negative if
\* and only if disabled is true or A >= 2^31.
C10_ZeroExtended ==
    \A t \in DOMAIN pc :
        AdjSucceeded(t) =>
            /\ ret[t].bits \cap (0 .. 31) = osOut[t].timeIncrement.bits
            /\ {b - 32 : b \in ret[t].bits \cap (32 .. 62)} =
                   osOut[t].timeAdjustment.bits \ {31}
            /\ IsNegative(ret[t]) <=>
                   (osOut[t].disabled.bits # {} \/ TopBitSet(osOut[t].timeAdjustment))

C10_Witness ==
    /\ AdjSucceeded(1)
    /\ TopBitSet(osOut[1].timeIncrement)
    /\ ~TopBitSet(osOut[1].timeAdjustment)
    /\ osOut[1].disabled.bits = {}
    /\ ~IsNegative(ret[1])

====
